---- MODULE Spec2Model ----
(***************************************************************************)
(* Model of efficientdet/model_inspect.py: the ModelInspector runner and   *)
(* main().  One run of main() is a behaviour: the flags and the log        *)
(* directory found on disk are chosen in Init, each action is one          *)
(* statement group of the code.  TensorFlow is modelled by its effect on   *)
(* the state this file drives: graphs, sessions, variable values, the      *)
(* files written, the lines printed.                                       *)
(***************************************************************************)
EXTENDS Integers, Sequences, FiniteSets, TLC

\* ---------------------------------------------------------------- bounds
MaxBmRuns == 6
MaxDuration == 2

\* ------------------------------------------------------- program constants
WarmupRuns == 5
DefaultBmRuns == 20
TrimLow == 2
TrimHigh == 2
DependencyOptimizationOff == 2

None == "None"

\* Python truthiness of an Optional[Text] flag: None and '' are false.
Truthy(x) == x \notin {None, ""}

\* Model names are sequences of tokens; str.startswith(prefix) looks at the
\* first one.
startswith(name, prefix) == Len(name) >= 1 /\ name[1] = prefix

ModelNames ==
  { <<"efficientdet", "-d1">>, <<"retinanet", "-50">>, <<"resnet", "-50">> }

\* Variant: build_model returns for any model name.
BuildModelBoundAny(model_name) == TRUE

\* build_model binds cls_outputs/box_outputs only in its two branches.
BuildModelBound(model_name) ==
  startswith(model_name, "efficientdet") \/ startswith(model_name, "retinanet")

\* ------------------------------------------------------------ file system
CkptFile(model_name) == [base |-> model_name, ext |-> ""]
GraphFile(model_name) == [base |-> model_name, ext |-> "_train.pb"]
StaleFile == [base |-> <<"stale">>, ext |-> ""]

EmptyDir == [exists |-> FALSE, files |-> {}, latest |-> <<>>]

\* A directory left by an earlier run: by = 0 marks a file that was on disk
\* before main() started; otherwise by is the session that wrote it.
OldDir(f) ==
  [exists |-> TRUE, files |-> {[f |-> f, by |-> 0]}, latest |-> <<f>>]

\* Writing file f replaces what the directory held under that name.
Put(files, f, by) == {x \in files : x.f # f} \cup {[f |-> f, by |-> by]}

\* tf.io.gfile.rmtree
rmtree(dir) == EmptyDir

\* Variant: the save leaves an existing checkpoint state untouched.
SaverSaveKeepLatest(dir, f, by) ==
  [exists |-> TRUE, files |-> Put(dir.files, f, by),
   latest |-> IF dir.latest = <<>> THEN <<f>> ELSE dir.latest]

\* tf.train.Saver.save(sess, path): writes the checkpoint and points the
\* directory's checkpoint state at it.
SaverSave(dir, f, by) ==
  [exists |-> TRUE, files |-> Put(dir.files, f, by), latest |-> <<f>>]

\* GFile(path, 'wb').write
GFileWrite(dir, f, by) ==
  [dir EXCEPT !.exists = TRUE, !.files = Put(dir.files, f, by)]

\* tf.train.latest_checkpoint(dir): <<>> is None.
latest_checkpoint(dir) == dir.latest

\* --------------------------------------------------------- pure helpers
RECURSIVE Insert(_, _)
Insert(x, s) ==
  IF s = <<>> THEN <<x>>
  ELSE IF x <= Head(s) THEN <<x>> \o s
  ELSE <<Head(s)>> \o Insert(x, Tail(s))

RECURSIVE Sort(_)
\* list.sort(): ascending
Sort(s) == IF s = <<>> THEN <<>> ELSE Insert(Head(s), Sort(Tail(s)))

\* Python index normalisation of a slice bound for a list of length n.
SliceBound(k, n) ==
  LET j == IF k < 0 THEN k + n ELSE k
  IN IF j < 0 THEN 0 ELSE IF j > n THEN n ELSE j

\* s[lo:hi]
PySlice(s, lo, hi) ==
  SubSeq(s, SliceBound(lo, Len(s)) + 1, SliceBound(hi, Len(s)))

RECURSIVE Sum(_)
Sum(s) == IF s = <<>> THEN 0 ELSE Head(s) + Sum(Tail(s))

RECURSIVE SumSq(_)
SumSq(s) == IF s = <<>> THEN 0 ELSE Head(s) * Head(s) + SumSq(Tail(s))

Min(s) == CHOOSE x \in {s[k] : k \in 1..Len(s)} :
            \A y \in {s[k] : k \in 1..Len(s)} : x <= y
Max(s) == CHOOSE x \in {s[k] : k \in 1..Len(s)} :
            \A y \in {s[k] : k \in 1..Len(s)} : x >= y

\* The statistics line: len, threads, mean as sum/len, variance as
\* (len*sumsq - sum^2)/len^2, min, max.
StatsLine(timev, num_threads) ==
  [kind |-> "stats",
   v |-> << Len(timev), num_threads, Sum(timev),
            Len(timev) * SumSq(timev) - Sum(timev) * Sum(timev),
            Min(timev), Max(timev) >>]

Line(kind) == [kind |-> kind, v |-> <<>>]

Durations == 1..MaxDuration

VARIABLES
  FLAGS,          \* the command-line flags
  ckpt_dir,       \* what FLAGS.ckpt_path holds on disk
  logdir0,        \* FLAGS.logdir as main() finds it
  logdir,         \* FLAGS.logdir
  exported,       \* checkpoints written to export_ckpt
  trace_files,    \* writes of trace_filename
  pc, stack,      \* position and return addresses
  ngraph,         \* graphs created
  default_graph,  \* the as_default() stack
  nsess,          \* sessions created
  sessions,       \* open sessions
  sess,           \* the current function's session
  vars_state,     \* per session: how its variables were last set
  retval,         \* value returned by the last call
  graphdef,       \* benchmark_model's local; <<>> is unbound
  args,           \* benchmark_model's arguments
  checkpoint,     \* local of restore_model / freeze_model; <<>> is None
  ema_assign_op,  \* local of restore_model; FALSE is None
  output,         \* benchmark_model's fetches
  i, timev,       \* loop index and samples
  events,         \* operations performed, in order
  stdout          \* lines printed

vars == << FLAGS, ckpt_dir, logdir0, logdir, exported, trace_files, pc, stack,
           ngraph, default_graph, nsess, sessions, sess, vars_state, retval,
           graphdef, args, checkpoint, ema_assign_op, output, i, timev,
           events, stdout >>

envv == << FLAGS, ckpt_dir, logdir0 >>
fsv == << logdir, exported, trace_files >>
tfv == << ngraph, default_graph, nsess, sessions, sess, vars_state >>
locv == << retval, graphdef, args, checkpoint, ema_assign_op, output, i,
          timev >>

NoOutput == [src |-> "none", grouped |-> FALSE]

NoArgs == [warmup_runs |-> 0, bm_runs |-> 0, num_threads |-> 0,
           trace_filename |-> None]

RunModes == {"dry", "freeze", "ckpt", "bm", "train"}
OptText(s) == {None, "", s}

\* Flags the selected run mode never reads keep their defaults.
FlagSets ==
  { f \in [ model_name : ModelNames,
            runmode : RunModes,
            trace_filename : OptText("/tmp/trace/t.json"),
            threads : {0, 4},
            bm_runs : (-1 .. MaxBmRuns) \cup {DefaultBmRuns},
            tensorrt : OptText("FP32"),
            delete_logdir : BOOLEAN,
            xla : BOOLEAN,
            ckpt_path : {None, "/ckpt"},
            export_ckpt : OptText("/export/model"),
            enable_ema : BOOLEAN ] :
      /\ f.runmode # "bm" =>
           /\ f.trace_filename = None /\ f.threads = 0
           /\ f.bm_runs = DefaultBmRuns /\ f.tensorrt = None /\ f.xla = FALSE
      /\ f.runmode = "bm" => f.bm_runs # DefaultBmRuns
      /\ f.runmode # "ckpt" =>
           /\ f.ckpt_path = None /\ f.export_ckpt = None /\ f.enable_ema = TRUE }

\* The flag defaults, lines 35-50.
DefaultFlags ==
  [ model_name |-> <<"efficientdet", "-d1">>, runmode |-> "dry",
    trace_filename |-> None, threads |-> 0, bm_runs |-> DefaultBmRuns,
    tensorrt |-> None, delete_logdir |-> TRUE, xla |-> FALSE,
    ckpt_path |-> None, export_ckpt |-> None, enable_ema |-> TRUE ]

\* The flags the timed loop reads.
TimingFlags == {"runmode", "bm_runs", "trace_filename", "threads"}

\* What one timed sess.run can take.  The durations vary when the flags the
\* timed loop does not read are at their defaults; the other flag
\* combinations are run with a steady duration.
Clock ==
  IF \A f \in (DOMAIN FLAGS) \ TimingFlags : FLAGS[f] = DefaultFlags[f]
  THEN Durations ELSE {1}

Init ==
  /\ FLAGS \in FlagSets
  /\ ckpt_dir \in {"empty", "trained"}
  /\ (FLAGS.ckpt_path = None => ckpt_dir = "empty")
  /\ logdir0 \in {EmptyDir, OldDir(StaleFile), OldDir(CkptFile(FLAGS.model_name))}
  /\ logdir = logdir0
  /\ exported = <<>>
  /\ trace_files = <<>>
  /\ pc = "main"
  /\ stack = <<>>
  /\ ngraph = 0
  /\ default_graph = <<>>
  /\ nsess = 0
  /\ sessions = {}
  /\ sess = 0
  /\ vars_state = <<>>
  /\ retval = <<>>
  /\ graphdef = <<>>
  /\ args = NoArgs
  /\ checkpoint = <<>>
  /\ ema_assign_op = FALSE
  /\ output = NoOutput
  /\ i = 0
  /\ timev = <<>>
  /\ events = <<>>
  /\ stdout = <<>>

\* ----------------------------------------------------------- bookkeeping
\* An operation the run performed; ok = FALSE marks the one that raised.
Ev(fn, op, arg) == [fn |-> fn, op |-> op, arg |-> arg, ok |-> TRUE]

Log(fn, op, arg) == events' = Append(events, Ev(fn, op, arg))

\* Variant: the session is not closed on exit.
SessionExitLeak(open, s) == open

\* __exit__ of tf.Session: the session is closed.
SessionExit(open, s) == { x \in open : x.id # s }

\* The graph tf.Session() binds to, given the as_default() stack.
SessionGraph(defaults) == IF defaults = <<>> THEN 0 ELSE Head(defaults)

\* with tf.Graph().as_default(), tf.Session(config=...) as sess:
WithGraphSession(config) ==
  /\ ngraph' = ngraph + 1
  /\ default_graph' = <<ngraph + 1>> \o default_graph
  /\ nsess' = nsess + 1
  /\ sess' = nsess + 1
  /\ sessions' = sessions \cup
       {[id |-> nsess + 1, graph |-> SessionGraph(default_graph'),
         config |-> config]}
  /\ vars_state' = Append(vars_state, "unset")

\* Leaving the with block: the session closes, the graph stops being default.
ExitWith ==
  /\ sessions' = SessionExit(sessions, sess)
  /\ default_graph' = Tail(default_graph)

\* An exception leaves every enclosing with block and every frame up to
\* tf.app.run; nothing in this file catches it.
Raise(fn, op, arg) ==
  /\ events' = Append(events, [Ev(fn, op, arg) EXCEPT !.ok = FALSE])
  /\ sessions' = SessionExit(sessions, sess)
  /\ default_graph' = <<>>
  /\ pc' = "raised"
  /\ stack' = <<>>

Call(entry, cont) == pc' = entry /\ stack' = <<cont>> \o stack
Return == pc' = Head(stack) /\ stack' = Tail(stack)

DefaultConfig == [intra |-> 0, inter |-> 0, dependency_optimization |-> 0,
                  global_jit_level |-> "DEFAULT"]

\* ------------------------------------------------------------------ main
main ==
  /\ pc = "main"
  /\ IF logdir.exists /\ FLAGS.delete_logdir
     THEN /\ logdir' = rmtree(logdir)
          /\ Log("main", "rmtree", 0)
     ELSE /\ UNCHANGED logdir
          /\ Log("main", "ModelInspector", 0)
  /\ pc' = "run_model"
  /\ UNCHANGED << envv, exported, trace_files, stack, tfv, locv, stdout >>

\* ModelInspector.__init__: the inspector's fields are the flags main()
\* passes.
self ==
  [model_name |-> FLAGS.model_name, tensorrt |-> FLAGS.tensorrt,
   use_xla |-> FLAGS.xla, ckpt_path |-> FLAGS.ckpt_path,
   enable_ema |-> FLAGS.enable_ema, export_ckpt |-> FLAGS.export_ckpt]

GraphOf(s) == (CHOOSE x \in sessions : x.id = s).graph

SetVars(val) == vars_state' = [vars_state EXCEPT ![sess] = val]

tfkeep == << ngraph, nsess, sess, vars_state >>

\* ------------------------------------------------------------- run_model
run_model_dry ==
  /\ pc = "run_model" /\ FLAGS.runmode = "dry"
  /\ Log("run_model", "build_and_save_model", 0)
  /\ Call("bsm_enter", "rm_return")
  /\ UNCHANGED << envv, fsv, tfv, locv, stdout >>

\* Variant: freeze mode stops after build_and_save_model.
run_model_freeze_only_build ==
  /\ pc = "run_model" /\ FLAGS.runmode = "freeze"
  /\ Log("run_model", "build_and_save_model", 0)
  /\ Call("bsm_enter", "rm_return")
  /\ UNCHANGED << envv, fsv, tfv, locv, stdout >>

run_model_freeze ==
  /\ pc = "run_model" /\ FLAGS.runmode = "freeze"
  /\ Log("run_model", "build_and_save_model", 0)
  /\ Call("bsm_enter", "rm_freeze")
  /\ UNCHANGED << envv, fsv, tfv, locv, stdout >>

\* self.freeze_model(): the returned graph-def is not bound to anything.
run_model_freeze_model ==
  /\ pc = "rm_freeze"
  /\ Log("run_model", "freeze_model", 0)
  /\ Call("fm_enter", "rm_return")
  /\ UNCHANGED << envv, fsv, tfv, locv, stdout >>

run_model_ckpt ==
  /\ pc = "run_model" /\ FLAGS.runmode = "ckpt"
  /\ Log("run_model", "eval_ckpt", 0)
  /\ Call("ec_enter", "rm_return")
  /\ UNCHANGED << envv, fsv, tfv, locv, stdout >>

run_model_bm ==
  /\ pc = "run_model" /\ FLAGS.runmode = "bm"
  /\ Log("run_model", "benchmark_model", 0)
  /\ args' = [warmup_runs |-> WarmupRuns, bm_runs |-> FLAGS.bm_runs,
              num_threads |-> FLAGS.threads,
              trace_filename |-> FLAGS.trace_filename]
  /\ Call("bm_enter", "rm_return")
  /\ UNCHANGED << envv, fsv, tfv, retval, graphdef, checkpoint, ema_assign_op,
                  output, i, timev, stdout >>

run_model_other ==
  /\ pc = "run_model" /\ FLAGS.runmode \notin {"dry", "freeze", "ckpt", "bm"}
  /\ pc' = "returned"
  /\ UNCHANGED << envv, fsv, tfv, locv, stack, events, stdout >>

run_model_return ==
  /\ pc = "rm_return"
  /\ pc' = "returned"
  /\ UNCHANGED << envv, fsv, tfv, locv, stack, events, stdout >>

\* -------------------------------------------------- build_and_save_model
build_and_save_model_with ==
  /\ pc = "bsm_enter"
  /\ WithGraphSession(DefaultConfig)
  /\ Log("build_and_save_model", "Session", nsess + 1)
  /\ pc' = "bsm_build"
  /\ UNCHANGED << envv, fsv, locv, stack, stdout >>

build_and_save_model_build ==
  /\ pc = "bsm_build"
  /\ stdout' = Append(stdout, Line("params"))
  /\ IF BuildModelBound(self.model_name)
     THEN /\ Log("build_and_save_model", "build_model", GraphOf(sess))
          /\ pc' = "bsm_init"
          /\ UNCHANGED << stack, sessions, default_graph >>
     ELSE Raise("build_and_save_model", "build_model", GraphOf(sess))
  /\ UNCHANGED << envv, fsv, tfkeep, locv >>

build_and_save_model_init ==
  /\ pc = "bsm_init"
  /\ \E ok \in BOOLEAN :
       IF ok
       THEN /\ Log("build_and_save_model", "global_variables_initializer", sess)
            /\ SetVars("initialized")
            /\ pc' = "bsm_run"
            /\ UNCHANGED << stack, sessions, default_graph >>
       ELSE /\ Raise("build_and_save_model", "global_variables_initializer",
                     sess)
            /\ UNCHANGED vars_state
  /\ UNCHANGED << envv, fsv, ngraph, nsess, sess, locv, stdout >>

build_and_save_model_run ==
  /\ pc = "bsm_run"
  /\ \E ok \in BOOLEAN :
       IF ok /\ vars_state[sess] # "unset"
       THEN /\ Log("build_and_save_model", "run", sess)
            /\ pc' = "bsm_save"
            /\ UNCHANGED << stack, sessions, default_graph >>
       ELSE Raise("build_and_save_model", "run", sess)
  /\ UNCHANGED << envv, fsv, tfkeep, locv, stdout >>

build_and_save_model_save ==
  /\ pc = "bsm_save"
  /\ logdir' = SaverSave(logdir, CkptFile(self.model_name), sess)
  /\ Log("build_and_save_model", "save", sess)
  /\ pc' = "bsm_write"
  /\ UNCHANGED << envv, exported, trace_files, tfv, locv, stack, stdout >>

build_and_save_model_write ==
  /\ pc = "bsm_write"
  /\ logdir' = GFileWrite(logdir, GraphFile(self.model_name), sess)
  /\ Log("build_and_save_model", "write_graph", GraphOf(sess))
  /\ ExitWith
  /\ Return
  /\ UNCHANGED << envv, exported, trace_files, tfkeep, locv, stdout >>

\* ---------------------------------------------------------- freeze_model
freeze_model_with ==
  /\ pc = "fm_enter"
  /\ WithGraphSession(DefaultConfig)
  /\ Log("freeze_model", "Session", nsess + 1)
  /\ pc' = "fm_build"
  /\ UNCHANGED << envv, fsv, locv, stack, stdout >>

freeze_model_build ==
  /\ pc = "fm_build"
  /\ stdout' = Append(stdout, Line("params"))
  /\ IF BuildModelBound(self.model_name)
     THEN /\ Log("freeze_model", "build_model", GraphOf(sess))
          /\ pc' = "fm_restore"
          /\ UNCHANGED << stack, sessions, default_graph >>
     ELSE Raise("freeze_model", "build_model", GraphOf(sess))
  /\ UNCHANGED << envv, fsv, tfkeep, locv >>

\* The session that wrote the checkpoint file c of the log directory.
WrittenBy(dir, c) == (CHOOSE x \in dir.files : x.f = c).by

\* checkpoint = latest_checkpoint(self.logdir); saver.restore(sess, checkpoint)
freeze_model_restore ==
  /\ pc = "fm_restore"
  /\ checkpoint' = latest_checkpoint(logdir)
  /\ \E ok \in BOOLEAN :
       IF ok /\ checkpoint' # <<>>
       THEN /\ Log("freeze_model", "restore", WrittenBy(logdir, checkpoint'[1]))
            /\ SetVars("restored")
            /\ pc' = "fm_convert"
            /\ UNCHANGED << stack, sessions, default_graph >>
       ELSE /\ Raise("freeze_model", "restore",
                     IF checkpoint' = <<>> THEN 0
                     ELSE WrittenBy(logdir, checkpoint'[1]))
            /\ UNCHANGED vars_state
  /\ UNCHANGED << envv, fsv, ngraph, nsess, sess, retval, graphdef, args,
                  ema_assign_op, output, i, timev, stdout >>

\* graphdef = convert_variables_to_constants(...); return graphdef
freeze_model_convert ==
  /\ pc = "fm_convert"
  /\ IF vars_state[sess] # "unset"
     THEN /\ Log("freeze_model", "convert_variables_to_constants", GraphOf(sess))
          /\ retval' = << GraphOf(sess) >>
          /\ ExitWith
          /\ Return
     ELSE /\ Raise("freeze_model", "convert_variables_to_constants",
                   GraphOf(sess))
          /\ UNCHANGED retval
  /\ UNCHANGED << envv, fsv, tfkeep, graphdef, args, checkpoint, ema_assign_op,
                  output, i, timev, stdout >>

\* ------------------------------------------------------------ eval_ckpt
eval_ckpt_with ==
  /\ pc = "ec_enter"
  /\ WithGraphSession(DefaultConfig)
  /\ Log("eval_ckpt", "Session", nsess + 1)
  /\ pc' = "ec_build"
  /\ UNCHANGED << envv, fsv, locv, stack, stdout >>

eval_ckpt_build ==
  /\ pc = "ec_build"
  /\ stdout' = Append(stdout, Line("params"))
  /\ IF BuildModelBound(self.model_name)
     THEN /\ Log("eval_ckpt", "build_model", GraphOf(sess))
          /\ pc' = "rs_init"
          /\ UNCHANGED << stack, sessions, default_graph >>
     ELSE Raise("eval_ckpt", "build_model", GraphOf(sess))
  /\ UNCHANGED << envv, fsv, tfkeep, locv >>

\* -------------------------------------------------------- restore_model
\* sess.run(tf.global_variables_initializer()), first one
restore_model_init ==
  /\ pc = "rs_init"
  /\ \E ok \in BOOLEAN :
       IF ok
       THEN /\ Log("restore_model", "global_variables_initializer", sess)
            /\ SetVars("initialized")
            /\ pc' = "rs_latest"
            /\ UNCHANGED << stack, sessions, default_graph >>
       ELSE /\ Raise("restore_model", "global_variables_initializer", sess)
            /\ UNCHANGED vars_state
  /\ UNCHANGED << envv, fsv, ngraph, nsess, sess, locv, stdout >>

\* checkpoint = latest_checkpoint(ckpt_path), then the EMA set-up.
\* latest_checkpoint(None) fails in os.path.join.
restore_model_latest ==
  /\ pc = "rs_latest"
  /\ IF self.ckpt_path = None
     THEN /\ Raise("restore_model", "latest_checkpoint", sess)
          /\ UNCHANGED << checkpoint, ema_assign_op >>
     ELSE /\ checkpoint' = IF ckpt_dir = "trained" THEN << "trained" >> ELSE <<>>
          /\ ema_assign_op' = self.enable_ema
          /\ Log("restore_model", "latest_checkpoint", sess)
          /\ pc' = "rs_init2"
          /\ UNCHANGED << stack, sessions, default_graph >>
  /\ UNCHANGED << envv, fsv, tfkeep, retval, graphdef, args, output, i, timev,
                  stdout >>

\* sess.run(tf.global_variables_initializer()), second one
restore_model_init2 ==
  /\ pc = "rs_init2"
  /\ \E ok \in BOOLEAN :
       IF ok
       THEN /\ Log("restore_model", "global_variables_initializer", sess)
            /\ SetVars("initialized")
            /\ pc' = "rs_restore"
            /\ UNCHANGED << stack, sessions, default_graph >>
       ELSE /\ Raise("restore_model", "global_variables_initializer", sess)
            /\ UNCHANGED vars_state
  /\ UNCHANGED << envv, fsv, ngraph, nsess, sess, locv, stdout >>

\* saver.restore(sess, checkpoint): fails on None
restore_model_restore ==
  /\ pc = "rs_restore"
  /\ \E ok \in BOOLEAN :
       IF ok /\ checkpoint # <<>>
       THEN /\ Log("restore_model", "restore", sess)
            /\ SetVars("restored")
            /\ pc' = "rs_export"
            /\ UNCHANGED << stack, sessions, default_graph >>
       ELSE /\ Raise("restore_model", "restore", sess)
            /\ UNCHANGED vars_state
  /\ UNCHANGED << envv, fsv, ngraph, nsess, sess, locv, stdout >>

\* Variant: the export is not guarded by export_ckpt.
restore_model_export_unguarded ==
  /\ pc = "rs_export"
  /\ stdout' = Append(stdout, Line("export"))
  /\ pc' = "rs_ema"
  /\ UNCHANGED << envv, fsv, tfv, locv, stack, events >>

\* if export_ckpt: print(...)
restore_model_export ==
  /\ pc = "rs_export"
  /\ IF Truthy(self.export_ckpt)
     THEN /\ stdout' = Append(stdout, Line("export"))
          /\ pc' = "rs_ema"
     ELSE /\ UNCHANGED stdout
          /\ pc' = "ec_exit"
  /\ UNCHANGED << envv, fsv, tfv, locv, stack, events >>

\* if ema_assign_op is not None: sess.run(ema_assign_op)
restore_model_ema ==
  /\ pc = "rs_ema"
  /\ IF ema_assign_op
     THEN \E ok \in BOOLEAN :
       IF ok
       THEN /\ Log("restore_model", "ema_assign_op", sess)
            /\ SetVars("ema")
            /\ pc' = "rs_save"
            /\ UNCHANGED << stack, sessions, default_graph >>
       ELSE /\ Raise("restore_model", "ema_assign_op", sess)
            /\ UNCHANGED vars_state
     ELSE /\ pc' = "rs_save"
          /\ UNCHANGED << stack, sessions, default_graph, vars_state, events >>
  /\ UNCHANGED << envv, fsv, ngraph, nsess, sess, locv, stdout >>

\* saver.save(sess, export_ckpt)
restore_model_save ==
  /\ pc = "rs_save"
  /\ exported' = Append(exported, [path |-> self.export_ckpt, by |-> sess,
                                   values |-> vars_state[sess]])
  /\ Log("restore_model", "save", sess)
  /\ pc' = "ec_exit"
  /\ UNCHANGED << envv, logdir, trace_files, tfv, locv, stack, stdout >>

eval_ckpt_exit ==
  /\ pc = "ec_exit"
  /\ ExitWith
  /\ Return
  /\ UNCHANGED << envv, fsv, tfkeep, locv, events, stdout >>

\* ------------------------------------------------------ benchmark_model
\* if self.tensorrt: (line 182)
TensorrtBuild(inspector) == Truthy(inspector.tensorrt)

\* Variant: the conversion is not guarded by self.tensorrt.
TensorrtConvertAlways(inspector) == TRUE

\* if self.tensorrt: (line 208)
TensorrtConvert(inspector) == Truthy(inspector.tensorrt)

benchmark_model_tensorrt ==
  /\ pc = "bm_enter"
  /\ IF TensorrtBuild(self)
     THEN /\ stdout' = Append(stdout, Line("tensorrt"))
          /\ Log("benchmark_model", "build_and_save_model", 0)
          /\ Call("bsm_enter", "bm_freeze")
     ELSE /\ pc' = "bm_config"
          /\ UNCHANGED << stdout, events, stack >>
  /\ UNCHANGED << envv, fsv, tfv, locv >>

benchmark_model_freeze_model ==
  /\ pc = "bm_freeze"
  /\ Log("benchmark_model", "freeze_model", 0)
  /\ Call("fm_enter", "bm_graphdef")
  /\ UNCHANGED << envv, fsv, tfv, locv, stdout >>

\* graphdef = <the value freeze_model returned>
benchmark_model_graphdef ==
  /\ pc = "bm_graphdef"
  /\ graphdef' = retval
  /\ pc' = "bm_config"
  /\ UNCHANGED << envv, fsv, tfv, retval, args, checkpoint, ema_assign_op,
                  output, i, timev, stack, events, stdout >>

\* sess_config, lines 187-199
SessConfig(num_threads, use_xla) ==
  [intra |-> IF num_threads > 0 THEN num_threads ELSE 0,
   inter |-> IF num_threads > 0 THEN 1 ELSE 0,
   dependency_optimization |-> DependencyOptimizationOff,
   global_jit_level |-> IF use_xla THEN "ON_2" ELSE "DEFAULT"]

benchmark_model_with ==
  /\ pc = "bm_config"
  /\ stdout' = IF args.num_threads > 0
               THEN Append(stdout, Line("num_threads")) ELSE stdout
  /\ WithGraphSession(SessConfig(args.num_threads, self.use_xla))
  /\ Log("benchmark_model", "Session", nsess + 1)
  /\ pc' = "bm_build"
  /\ UNCHANGED << envv, fsv, locv, stack >>

benchmark_model_build ==
  /\ pc = "bm_build"
  /\ stdout' = Append(stdout, Line("params"))
  /\ IF BuildModelBound(self.model_name)
     THEN /\ Log("benchmark_model", "build_model", GraphOf(sess))
          /\ output' = [src |-> "model", grouped |-> FALSE]
          /\ pc' = "bm_init"
          /\ UNCHANGED << stack, sessions, default_graph >>
     ELSE /\ Raise("benchmark_model", "build_model", GraphOf(sess))
          /\ UNCHANGED output
  /\ UNCHANGED << envv, fsv, tfkeep, retval, graphdef, args, checkpoint,
                  ema_assign_op, i, timev >>

benchmark_model_init ==
  /\ pc = "bm_init"
  /\ \E ok \in BOOLEAN :
       IF ok
       THEN /\ Log("benchmark_model", "global_variables_initializer", sess)
            /\ SetVars("initialized")
            /\ pc' = "bm_trt"
            /\ UNCHANGED << stack, sessions, default_graph >>
       ELSE /\ Raise("benchmark_model", "global_variables_initializer", sess)
            /\ UNCHANGED vars_state
  /\ UNCHANGED << envv, fsv, ngraph, nsess, sess, locv, stdout >>

\* if self.tensorrt: ... self.convert_tr(graphdef, fetches); reading an
\* unbound graphdef raises.  Then tf.group unless XLA, and the warm-up loop
\* starts.
benchmark_model_convert_tr ==
  /\ pc = "bm_trt"
  /\ IF TensorrtConvert(self)
     THEN IF graphdef = <<>>
          THEN /\ Raise("benchmark_model", "convert_tr", -1)
               /\ UNCHANGED << output, i >>
          ELSE /\ Log("benchmark_model", "convert_tr", graphdef[1])
               /\ output' = [src |-> "trt", grouped |-> ~self.use_xla]
               /\ i' = 0
               /\ pc' = "bm_warmup"
               /\ UNCHANGED << stack, sessions, default_graph >>
     ELSE /\ output' = [output EXCEPT !.grouped = ~self.use_xla]
          /\ i' = 0
          /\ pc' = "bm_warmup"
          /\ UNCHANGED << stack, sessions, default_graph, events >>
  /\ UNCHANGED << envv, fsv, tfkeep, retval, graphdef, args, checkpoint,
                  ema_assign_op, timev, stdout >>

\* for i in range(warmup_runs): sess.run(output, ...); print(...)
benchmark_model_warmup ==
  /\ pc = "bm_warmup" /\ i < args.warmup_runs
  /\ \E ok \in BOOLEAN :
       IF ok
       THEN /\ Log("benchmark_model", "warmup_run", i)
            /\ stdout' = Append(stdout, Line("warmup"))
            /\ i' = i + 1
            /\ UNCHANGED << pc, stack, sessions, default_graph >>
       ELSE /\ Raise("benchmark_model", "warmup_run", i)
            /\ UNCHANGED << stdout, i >>
  /\ UNCHANGED << envv, fsv, tfkeep, retval, graphdef, args, checkpoint,
                  ema_assign_op, output, timev >>

\* Variant: the trace is taken in every iteration from the middle one on.
TraceNowFromMiddle(trace_filename, k, bm_runs) ==
  Truthy(trace_filename) /\ k >= bm_runs \div 2

\* if trace_filename and i == (bm_runs // 2):
TraceNow(trace_filename, k, bm_runs) ==
  Truthy(trace_filename) /\ k = bm_runs \div 2

\* for i in range(bm_runs): where iteration k starts, or the loop ends.
ForBmRuns(k) ==
  IF k < args.bm_runs
  THEN IF TraceNow(args.trace_filename, k, args.bm_runs)
       THEN "bm_trace" ELSE "bm_timed"
  ELSE "bm_sort"

\* print('Start benchmark runs ...'); timev = []
benchmark_model_start ==
  /\ pc = "bm_warmup" /\ i >= args.warmup_runs
  /\ stdout' = Append(stdout, Line("start"))
  /\ timev' = <<>>
  /\ i' = 0
  /\ pc' = ForBmRuns(0)
  /\ UNCHANGED << envv, fsv, tfv, retval, graphdef, args, checkpoint,
                  ema_assign_op, output, stack, events >>

\* the traced sess.run and the dump of the Chrome trace
benchmark_model_trace ==
  /\ pc = "bm_trace"
  /\ \E ok \in BOOLEAN :
       IF ok
       THEN /\ events' = events \o << Ev("benchmark_model", "traced_run", i),
                                      Ev("benchmark_model", "trace_write", i) >>
            /\ trace_files' = Append(trace_files, args.trace_filename)
            /\ pc' = "bm_timed"
            /\ UNCHANGED << stack, sessions, default_graph >>
       ELSE /\ Raise("benchmark_model", "traced_run", i)
            /\ UNCHANGED trace_files
  /\ UNCHANGED << envv, logdir, exported, tfkeep, locv, stdout >>

\* start_time = time.time(); sess.run(...); timev.append(elapsed)
benchmark_model_timed ==
  /\ pc = "bm_timed"
  /\ \E ok \in BOOLEAN :
       IF ok
       THEN /\ \E d \in Clock : timev' = Append(timev, d)
            /\ Log("benchmark_model", "timed_run", i)
            /\ i' = i + 1
            /\ pc' = ForBmRuns(i + 1)
            /\ UNCHANGED << stack, sessions, default_graph >>
       ELSE /\ Raise("benchmark_model", "timed_run", i)
            /\ UNCHANGED << timev, i >>
  /\ UNCHANGED << envv, fsv, tfkeep, retval, graphdef, args, checkpoint,
                  ema_assign_op, output, stdout >>

\* Variant: the slice is taken without sorting first.
TrimmedUnsorted(samples, bm_runs) ==
  PySlice(samples, TrimLow, bm_runs - TrimHigh)

\* What timev holds after lines 243-244.
Trimmed(samples, bm_runs) ==
  PySlice(Sort(samples), TrimLow, bm_runs - TrimHigh)

\* timev.sort(); timev = timev[2:bm_runs-2]
benchmark_model_sort ==
  /\ pc = "bm_sort"
  /\ timev' = Trimmed(timev, args.bm_runs)
  /\ Log("benchmark_model", "sort", Len(timev))
  /\ pc' = "bm_print"
  /\ UNCHANGED << envv, fsv, tfv, retval, graphdef, args, checkpoint,
                  ema_assign_op, output, i, stack, stdout >>

\* np.min and np.max of an empty list raise ValueError; np.mean and np.std
\* only warn.
StatsDefined(samples) == samples # <<>>

\* print('{} {}runs {}threads: mean ... std ... min ... max ...')
benchmark_model_print ==
  /\ pc = "bm_print"
  /\ IF StatsDefined(timev)
     THEN /\ stdout' = Append(stdout, StatsLine(timev, args.num_threads))
          /\ Log("benchmark_model", "print_stats", Len(timev))
          /\ ExitWith
          /\ Return
     ELSE /\ Raise("benchmark_model", "np.min", 0)
          /\ UNCHANGED stdout
  /\ UNCHANGED << envv, fsv, tfkeep, locv >>

Next ==
  \/ main
  \/ run_model_dry \/ run_model_freeze \/ run_model_freeze_model
  \/ run_model_ckpt \/ run_model_bm \/ run_model_other \/ run_model_return
  \/ build_and_save_model_with \/ build_and_save_model_build
  \/ build_and_save_model_init \/ build_and_save_model_run
  \/ build_and_save_model_save \/ build_and_save_model_write
  \/ freeze_model_with \/ freeze_model_build \/ freeze_model_restore
  \/ freeze_model_convert
  \/ eval_ckpt_with \/ eval_ckpt_build \/ eval_ckpt_exit
  \/ restore_model_init \/ restore_model_latest \/ restore_model_init2
  \/ restore_model_restore \/ restore_model_export \/ restore_model_ema
  \/ restore_model_save
  \/ benchmark_model_tensorrt \/ benchmark_model_freeze_model
  \/ benchmark_model_graphdef \/ benchmark_model_with \/ benchmark_model_build
  \/ benchmark_model_init \/ benchmark_model_convert_tr
  \/ benchmark_model_warmup \/ benchmark_model_start
  \/ benchmark_model_trace \/ benchmark_model_timed \/ benchmark_model_sort
  \/ benchmark_model_print

Spec == Init /\ [][Next]_vars

\* =================================================================
\* Properties
\* =================================================================
Idx(fn, op) ==
  { k \in 1..Len(events) :
      events[k].fn = fn /\ events[k].op = op /\ events[k].ok }

\* Positions of the operations that raised.
Raises == { k \in 1..Len(events) : ~events[k].ok }

Before(A, B) == \A a \in A, b \in B : a < b

IsRunModelCall(e) == e.fn = "run_model" /\ e.ok

\* The functions run_model has called so far, in order.
RunModelCalls ==
  LET sel == SelectSeq(events, IsRunModelCall)
  IN [k \in 1..Len(sel) |-> sel[k].op]

IsPrefix(s, t) == Len(s) <= Len(t) /\ \A k \in 1..Len(s) : s[k] = t[k]

ExpectedCalls(runmode) ==
  CASE runmode = "dry" -> << "build_and_save_model" >>
    [] runmode = "freeze" -> << "build_and_save_model", "freeze_model" >>
    [] runmode = "ckpt" -> << "eval_ckpt" >>
    [] runmode = "bm" -> << "benchmark_model" >>
    [] OTHER -> <<>>

\* C1: run_model calls, in order, exactly the operations of its run mode
\* (dry: build_and_save_model; freeze: build_and_save_model, freeze_model;
\* ckpt: eval_ckpt; bm: benchmark_model with warmup_runs = 5, bm_runs = the
\* flag, num_threads = the threads argument); any other run mode performs
\* nothing and returns without an error.
C1_RunModelDispatch ==
  /\ IsPrefix(RunModelCalls, ExpectedCalls(FLAGS.runmode))
  /\ pc = "returned" => RunModelCalls = ExpectedCalls(FLAGS.runmode)
  /\ Idx("run_model", "benchmark_model") # {} =>
       /\ args.warmup_runs = 5
       /\ args.bm_runs = FLAGS.bm_runs
       /\ args.num_threads = FLAGS.threads
       /\ pc \in {"bm_timed", "bm_trace", "bm_sort", "bm_print",
                  "rm_return", "returned"} =>
            Cardinality(Idx("benchmark_model", "warmup_run")) = 5
  /\ FLAGS.runmode \notin {"dry", "freeze", "ckpt", "bm"} =>
       /\ pc # "raised"
       /\ Len(events) <= 1
       /\ nsess = 0
       /\ \A x \in logdir.files : x.by = 0

C1_Witness ==
  /\ pc = "returned" /\ FLAGS.runmode = "bm" /\ FLAGS.threads = 4
  /\ FLAGS.bm_runs = 5

\* The session opened by freeze_model, 0 if none.
FreezeSession ==
  IF Idx("freeze_model", "Session") = {} THEN 0
  ELSE events[CHOOSE k \in Idx("freeze_model", "Session") : TRUE].arg

\* C2: when run_model('freeze') returns, the frozen graph-def produced by
\* freeze_model is among the files the run has written, next to the
\* checkpoint saved by build_and_save_model.
C2_FrozenGraphIsOutput ==
  (pc = "returned" /\ FLAGS.runmode = "freeze") =>
     /\ \E x \in logdir.files : x.f = CkptFile(FLAGS.model_name) /\ x.by # 0
     /\ \E x \in logdir.files : x.by = FreezeSession

\* C3: for every bm_runs >= 0, a benchmark whose session runs all succeed
\* does not fail after the timed loop: it prints the statistics line.
C3_StatsAlwaysPrinted ==
  (FLAGS.runmode = "bm" /\ FLAGS.bm_runs >= 0) =>
     /\ \A k \in Raises : events[k].op # "np.min"
     /\ pc \in {"rm_return", "returned"} =>
          Idx("benchmark_model", "print_stats") # {}

LoopDone == pc \in {"bm_sort", "bm_print", "rm_return", "returned"}

\* C4: with a trace file name given and bm_runs >= 1 the timed loop makes
\* exactly one traced run, in iteration bm_runs // 2 and before that
\* iteration's timed run, writes the trace file exactly once and collects
\* exactly bm_runs samples from bm_runs + 1 runs; without a trace file
\* name there is no traced run and no trace file.
C4_TraceOnce ==
  FLAGS.runmode = "bm" =>
    LET traced == Idx("benchmark_model", "traced_run")
        written == Idx("benchmark_model", "trace_write")
        timed == Idx("benchmark_model", "timed_run")
        n == FLAGS.bm_runs
    IN /\ Cardinality(traced) <= 1
       /\ Cardinality(written) <= 1
       /\ Len(trace_files) = Cardinality(written)
       /\ \A k \in traced :
            /\ 2 * events[k].arg <= n /\ n <= 2 * events[k].arg + 1
            /\ k + 1 \in written
            /\ \A t \in timed :
                 (t < k) <=> (events[t].arg < events[k].arg)
            /\ (k + 2 <= Len(events) /\ events[k + 2].ok) =>
                 events[k + 2] = Ev("benchmark_model", "timed_run",
                                    events[k].arg)
       /\ (FLAGS.trace_filename \notin {None, ""} /\ n >= 1 /\ LoopDone) =>
            /\ Cardinality(traced) = 1
            /\ trace_files = << FLAGS.trace_filename >>
            /\ Cardinality(timed) = n
            /\ Cardinality(timed) + Cardinality(traced) = n + 1
       /\ pc = "bm_sort" => Len(timev) = Cardinality(timed)
       /\ FLAGS.trace_filename = None =>
            traced = {} /\ written = {} /\ trace_files = <<>>

C4_Witness ==
  /\ pc = "bm_sort" /\ FLAGS.bm_runs = 5 /\ Len(timev) = 5
  /\ trace_files = << "/tmp/trace/t.json" >>

\* C5: in restore_model every run of the variable initializer precedes
\* saver.restore, so the restored values are not overwritten; a checkpoint
\* is exported iff export_ckpt is given, after the restore; the EMA assign
\* op runs iff enable_ema and export_ckpt are both given, after the restore
\* and before the export.
C5_RestoreOrder ==
  LET inits == Idx("restore_model", "global_variables_initializer")
      restores == Idx("restore_model", "restore")
      emas == Idx("restore_model", "ema_assign_op")
      saves == Idx("restore_model", "save")
      export == FLAGS.export_ckpt \notin {None, ""}
  IN /\ Before(inits, restores)
     /\ Cardinality(restores) <= 1
     /\ (restores # {} /\ pc # "raised") =>
          /\ Cardinality(inits) = 2
          /\ vars_state[sess] \in {"restored", "ema"}
     /\ Before(restores, saves) /\ Before(restores, emas)
     /\ Before(emas, saves)
     /\ saves # {} => (export /\ restores # {})
     /\ emas # {} => (export /\ FLAGS.enable_ema /\ restores # {})
     /\ Len(exported) = Cardinality(saves)
     /\ saves # {} => (emas # {} <=> FLAGS.enable_ema)
     /\ (pc = "returned" /\ FLAGS.runmode = "ckpt") =>
          /\ restores # {}
          /\ saves # {} <=> export
          /\ emas # {} <=> (export /\ FLAGS.enable_ema)
          /\ \A k \in 1..Len(exported) :
               exported[k].values =
                 IF FLAGS.enable_ema THEN "ema" ELSE "restored"

C5_Witness ==
  /\ pc = "returned" /\ FLAGS.runmode = "ckpt" /\ FLAGS.enable_ema
  /\ Len(exported) = 1 /\ exported[1].values = "ema"

\* C6: an error raised by a step propagates out of run_model: it is the last
\* thing the run does, the failed step is not run again, the run does not
\* return normally, and when build_model fails in build_and_save_model no
\* checkpoint or graph file has been written.  A model name that starts with
\* neither prefix and a restore without a checkpoint are such errors.
C6_ErrorsPropagate ==
  /\ \A k \in Raises : k = Len(events)
  /\ (Raises # {}) <=> (pc = "raised")
  /\ pc = "raised" => stack = <<>>
  /\ \A k \in Raises :
       (events[k].fn = "build_and_save_model"
         /\ events[k].op = "build_model") =>
            /\ \A x \in logdir.files : x.by = 0
            /\ Idx("build_and_save_model", "save") = {}
            /\ Idx("build_and_save_model", "write_graph") = {}
  /\ (FLAGS.model_name[1] \notin {"efficientdet", "retinanet"}
       /\ FLAGS.runmode \in {"dry", "freeze", "ckpt", "bm"}) =>
       /\ pc # "returned"
       /\ \A x \in logdir.files : x.by = 0
       /\ exported = <<>>
       /\ \A k \in 1..Len(events) :
            events[k].op = "build_model" => k \in Raises
  /\ (FLAGS.runmode = "ckpt" /\ ckpt_dir = "empty") => pc # "returned"

C6_Witness ==
  /\ pc = "raised" /\ FLAGS.runmode = "freeze"
  /\ FLAGS.model_name[1] = "resnet"
  /\ events[Len(events)].fn = "build_and_save_model"

Count(s, v) == Cardinality({ k \in 1..Len(s) : s[k] = v })

\* samples splits into kept, two low values and two high values, every kept
\* value lying between the low and the high ones.
TrimmedSplit(samples, kept) ==
  \E lo, hi \in [Durations -> 0..2] :
    /\ \A v \in Durations : Count(samples, v) = Count(kept, v) + lo[v] + hi[v]
    /\ \A v \in Durations, k \in 1..Len(kept) :
         /\ lo[v] > 0 => v <= kept[k]
         /\ hi[v] > 0 => v >= kept[k]
    /\ \A v, w \in Durations : (lo[v] > 0 /\ hi[w] > 0) => v <= w

\* C8: after the timed loop the samples are sorted ascending and the 2
\* smallest and the 2 largest are dropped: max(0, bm_runs - 4) samples are
\* retained, each of them >= every dropped low sample and <= every dropped
\* high sample, and the run count of a printed statistics line is that
\* number.
C8_TrimmedSample ==
  /\ [][ pc = "bm_sort" =>
           LET n == FLAGS.bm_runs
           IN /\ Len(timev') = IF n - 4 > 0 THEN n - 4 ELSE 0
              /\ \A k \in 1..(Len(timev') - 1) : timev'[k] <= timev'[k + 1]
              /\ n >= 4 => TrimmedSplit(timev, timev')
              /\ n < 4 => timev' = <<>> ]_vars
  /\ [](\A k \in 1..Len(stdout) :
          stdout[k].kind = "stats" =>
            /\ stdout[k].v[1] = Len(timev)
            /\ stdout[k].v[1] = FLAGS.bm_runs - 4
            /\ stdout[k].v[2] = FLAGS.threads
            /\ \A j \in 1..Len(timev) :
                 stdout[k].v[5] <= timev[j] /\ timev[j] <= stdout[k].v[6])

C8_Witness ==
  /\ pc = "bm_print" /\ FLAGS.bm_runs = 6 /\ timev = << 1, 2 >>

EntryPoints ==
  { "main", "run_model", "rm_freeze", "rm_return", "bsm_enter", "fm_enter",
    "ec_enter", "bm_enter", "bm_freeze", "bm_graphdef", "bm_config",
    "returned", "raised" }

\* C9: at most one session is open at any moment, each open session is bound
\* to the graph created in the same with statement, the session of one
\* operation is closed before the next operation starts, and no session is
\* open once run_model has returned or raised.
C9_SessionLifecycle ==
  /\ Cardinality(sessions) <= 1
  /\ \A x \in sessions :
       /\ x.id = sess /\ x.id = nsess
       /\ x.graph = ngraph /\ x.graph >= 1
       /\ default_graph = << x.graph >>
       /\ \A k \in 1..Len(events) :
            (events[k].op = "Session" /\ events[k].arg # x.id) =>
               events[k].arg < x.graph
  /\ ngraph = nsess
  /\ pc \in EntryPoints => (sessions = {} /\ default_graph = <<>>)
  /\ pc \notin EntryPoints => Cardinality(sessions) = 1

C9_Witness ==
  /\ pc = "bm_warmup" /\ nsess = 3 /\ Cardinality(sessions) = 1

\* C10: main removes the log directory iff it exists and delete_logdir is
\* true, before the inspector does anything; with delete_logdir false no
\* file found in the log directory disappears; and the checkpoint that
\* freeze_model restores is the one build_and_save_model saved earlier in the
\* same run.
C10_LogdirAndLatestCheckpoint ==
  LET removed == { k \in 1..Len(events) : events[k].op = "rmtree" }
      saved == Idx("build_and_save_model", "save")
      restored == Idx("freeze_model", "restore")
  IN /\ events # <<>> =>
          /\ events[1].fn = "main"
          /\ (1 \in removed) <=> (logdir0.exists /\ FLAGS.delete_logdir)
     /\ removed \subseteq {1}
     /\ (events # <<>> /\ logdir0.exists /\ FLAGS.delete_logdir) =>
          \A x \in logdir.files : x.by # 0
     /\ ~FLAGS.delete_logdir =>
          /\ logdir0.exists => logdir.exists
          /\ \A x \in logdir0.files : \E y \in logdir.files : y.f = x.f
          /\ \A x \in logdir0.files :
               x.f # CkptFile(FLAGS.model_name) => x \in logdir.files
     /\ \A k \in 1..Len(events) :
          (events[k].fn = "freeze_model" /\ events[k].op = "restore") =>
             /\ events[k].arg # 0
             /\ \E j \in saved : j < k /\ events[j].arg = events[k].arg
     /\ Cardinality(restored) <= 1

C10_Witness ==
  /\ pc = "fm_convert" /\ ~FLAGS.delete_logdir /\ logdir0 = OldDir(StaleFile)
  /\ Idx("freeze_model", "restore") # {}

====
